---- MODULE Spec2Model ----
(***************************************************************************)
(* A model of the bdigest quantile digest (package bdigest, digest.go):    *)
(* NewDigest, Add, Merge, Quantile, MarshalBinary and UnmarshalBinary,     *)
(* and of Reset, which the version in unnamed/part_000 has.                *)
(*                                                                         *)
(* float64 values are modelled as exact rationals <<n, d>> (d > 0) in      *)
(* lowest terms, together with +Inf = <<1, 0>>, -Inf = <<-1, 0>> and       *)
(* NaN = <<0, 0>>.  Arithmetic is exact below the largest finite value     *)
(* MaxFloat64 and overflows to an infinity above it, as IEEE-754 does;     *)
(* rounding in the last place is not modelled.  The float range is scaled  *)
(* down so that the values next to MaxFloat64 can be enumerated.           *)
(***************************************************************************)
EXTENDS Integers, Sequences, FiniteSets, TLC

(***************************************************************************)
(* Bounds of the model.                                                    *)
(***************************************************************************)
\* Add and Merge stop once the digests hold this many values between them
MaxTotal == 3
\* bucket keys are searched in -MaxKey .. MaxKey
MaxKey == 6
\* the longest slice the runtime allocates, scaled down: make and append
\* panic ("len out of range") beyond it
MaxLen == 4
\* in the runs on digests laid out in memory, Add and Merge stop once the
\* digests hold this many values between them
MaxStored == 2

(***************************************************************************)
(* float64                                                                 *)
(***************************************************************************)
PosInf == <<1, 0>>
NegInf == <<-1, 0>>
NaN == <<0, 0>>

\* math.MaxFloat64, scaled down: the largest finite value of the model
MaxFloat64 == <<16, 1>>

Abs(n) == IF n < 0 THEN -n ELSE n

Sign(n) == IF n < 0 THEN -1 ELSE IF n > 0 THEN 1 ELSE 0

RECURSIVE GCD(_, _)
GCD(a, b) == IF b = 0 THEN a ELSE GCD(b, a % b)

IsNaN(x) == x = NaN

IsInf(x) == x[2] = 0 /\ x[1] # 0

\* lowest terms; an infinity or NaN is already canonical
Norm(x) ==
    IF x[2] = 0 THEN <<Sign(x[1]), 0>>
    ELSE IF x[1] = 0 THEN <<0, 1>>
    ELSE LET g == GCD(Abs(x[1]), x[2]) IN <<x[1] \div g, x[2] \div g>>

\* a < b on float64: false whenever an operand is NaN
Lt(a, b) ==
    /\ ~IsNaN(a)
    /\ ~IsNaN(b)
    /\ IF a[2] = 0 /\ b[2] = 0 THEN a[1] < b[1] ELSE a[1] * b[2] < b[1] * a[2]

Le(a, b) == ~IsNaN(a) /\ ~IsNaN(b) /\ ~Lt(b, a)

\* the result of an operation: a magnitude above MaxFloat64 becomes infinite
Round(x) ==
    IF x[2] = 0 THEN x
    ELSE IF Lt(MaxFloat64, x) THEN PosInf
    ELSE IF Lt(x, <<-MaxFloat64[1], MaxFloat64[2]>>) THEN NegInf
    ELSE Norm(x)

FNeg(a) == <<-a[1], a[2]>>

FAdd(a, b) ==
    IF IsNaN(a) \/ IsNaN(b) THEN NaN
    ELSE IF IsInf(a) THEN (IF IsInf(b) /\ b # a THEN NaN ELSE a)
    ELSE IF IsInf(b) THEN b
    ELSE Round(<<a[1] * b[2] + b[1] * a[2], a[2] * b[2]>>)

FSub(a, b) == FAdd(a, FNeg(b))

FMul(a, b) ==
    LET n == a[1] * b[1]
        d == a[2] * b[2]
    IN IF d = 0 THEN (IF n = 0 THEN NaN ELSE <<Sign(n), 0>>) ELSE Round(<<n, d>>)

Recip(b) ==
    IF b[1] < 0 THEN <<-b[2], -b[1]>> ELSE <<b[2], b[1]>>

FDiv(a, b) == FMul(a, Recip(b))

\* float64(n) for a small unsigned integer n
FromInt(n) == <<n, 1>>

\* uint64(x) for a finite x >= 0: truncation
ToUint(x) == x[1] \div x[2]

RECURSIVE IPow(_, _)
IPow(b, e) == IF e = 0 THEN 1 ELSE b * IPow(b, e - 1)

\* g^k as an exact rational, g > 0
Pow(g, k) ==
    IF k >= 0 THEN Norm(<<IPow(g[1], k), IPow(g[2], k)>>)
    ELSE Norm(<<IPow(g[2], -k), IPow(g[1], -k)>>)

\* math.Exp(k * ln g): g^k, infinite above MaxFloat64
Exp(g, k) == Round(Pow(g, k))

(***************************************************************************)
(* The digest.  The field gammaLn = ln(gamma) is carried by gamma itself:  *)
(* math.Log(x) / gammaLn is log_gamma(x), math.Exp(k * gammaLn) is gamma^k.*)
(* A slice is a sequence; Go's index i is index i + 1 here.                *)
(***************************************************************************)
Zeros(n) == [i \in 1 .. n |-> 0]

\* 1 + 2*err/(1-err)
Gamma(err) == FAdd(FromInt(1), FDiv(FMul(FromInt(2), err), FSub(FromInt(1), err)))

NewDigest(err) ==
    IF IsNaN(err) \/ Le(err, FromInt(0)) \/ Le(FromInt(1), err)
    THEN [ret |-> "panic"]
    ELSE [ret |-> "ok",
          d |-> [alpha |-> err, gamma |-> Gamma(err),
                 min |-> PosInf, max |-> NegInf,
                 sum |-> FromInt(0), c |-> FromInt(0),
                 neg |-> <<>>, pos |-> <<>>, numNeg |-> 0, numPos |-> 0]]

Size(d) == Len(d.neg) + Len(d.pos)

Sum(d) == d.sum

Count(d) == d.numNeg + d.numPos

addKahan(d, v) ==
    LET y == FSub(v, d.c)
        t == FAdd(d.sum, y)
    IN [d EXCEPT !.c = FSub(FSub(t, d.sum), y), !.sum = t]

\* int(math.Ceil(math.Log(x) / gammaLn)): the least k with gamma^k >= x
bucketKey(d, x) ==
    CHOOSE k \in -MaxKey .. MaxKey :
        /\ Le(x, Pow(d.gamma, k))
        /\ Lt(Pow(d.gamma, k - 1), x)

\* a bug: the sign of the key is lost, so larger keys decode to smaller values
quantileMirrored(d, k) ==
    LET powGammaK == Exp(d.gamma, -k)
    IN FDiv(FMul(FromInt(2), powGammaK), FAdd(d.gamma, FromInt(1)))

quantile(d, k) ==
    LET powGammaK == Exp(d.gamma, k)
    IN FDiv(FMul(FromInt(2), powGammaK), FAdd(d.gamma, FromInt(1)))

grow(buckets, ix) ==
    LET n == ix + 1 - Len(buckets)
    IN IF n <= 0 THEN buckets ELSE buckets \o Zeros(n)

\* append(buckets, make([]uint64, n)...) panics when the slice would be
\* longer than the runtime allocates
growPanics(buckets, ix) == ix + 1 - Len(buckets) > 0 /\ ix + 1 > MaxLen

RECURSIVE rankIndexLoop(_, _, _, _)
RECURSIVE rankIndexRevLoop(_, _, _, _)
rankIndexRevLoop(rank, buckets, i, n) ==
    IF i < 0 THEN 0
    ELSE LET m == n + buckets[i + 1]
         IN IF m >= rank THEN i ELSE rankIndexRevLoop(rank, buckets, i - 1, m)

\* a bug: the neg array is scanned from index 0, the largest values first
rankIndexRevFromZero(rank, buckets) == rankIndexLoop(rank, buckets, 0, 0)

rankIndexRev(rank, buckets) == rankIndexRevLoop(rank, buckets, Len(buckets) - 1, 0)

rankIndexLoop(rank, buckets, i, n) ==
    IF i >= Len(buckets) THEN Len(buckets) - 1
    ELSE LET m == n + buckets[i + 1]
         IN IF m >= rank THEN i ELSE rankIndexLoop(rank, buckets, i + 1, m)

rankIndex(rank, buckets) == rankIndexLoop(rank, buckets, 0, 0)

\* if v < d.min { d.min = v }; if v > d.max { d.max = v }
addMinMax(d, v) ==
    LET d1 == IF Lt(v, d.min) THEN [d EXCEPT !.min = v] ELSE d
    IN IF Lt(d1.max, v) THEN [d1 EXCEPT !.max = v] ELSE d1

\* the bucket of key k is grown to and incremented
addBucket(d, k) ==
    IF k < 1
    THEN [d EXCEPT !.neg = [grow(d.neg, -k) EXCEPT ![-k + 1] = @ + 1],
                   !.numNeg = @ + 1]
    ELSE [d EXCEPT !.pos = [grow(d.pos, k - 1) EXCEPT ![k] = @ + 1],
                   !.numPos = @ + 1]

\* the bucket array of key k cannot be grown to hold it
addBucketPanics(d, k) ==
    IF k < 1 THEN growPanics(d.neg, -k) ELSE growPanics(d.pos, k - 1)

\* d.Add(v): the digest afterwards and how the call ended.  min, max and
\* sum are written before the bucket array is grown.
Add(d, v) ==
    IF IsNaN(v) \/ Le(v, FromInt(0)) \/ Le(MaxFloat64, v)
    THEN [ret |-> "panic", d |-> d]
    ELSE LET d1 == addKahan(addMinMax(d, v), v)
             k == bucketKey(d1, v)
         IN IF addBucketPanics(d1, k)
            THEN [ret |-> "panic", d |-> d1]
            ELSE [ret |-> "ok", d |-> addBucket(d1, k)]

\* a bug: the counters of v replace those of d
AddBucketsOverwrite(dst, src, alias) ==
    [i \in 1 .. Len(dst) |-> IF i <= Len(src) THEN src[i] ELSE dst[i]]

\* for i, n := range src { dst[i] += n }; with alias, src is dst's own storage
AddBuckets(dst, src, alias) ==
    [i \in 1 .. Len(dst) |->
        IF i <= Len(src) THEN dst[i] + (IF alias THEN dst[i] ELSE src[i]) ELSE dst[i]]

\* a bug: the extremes of v are not taken over
mergeMinMaxKeep(d, v) == d

\* if v.min < d.min { d.min = v.min }; if v.max > d.max { d.max = v.max }
mergeMinMax(d, v) ==
    LET d1 == IF Lt(v.min, d.min) THEN [d EXCEPT !.min = v.min] ELSE d
    IN IF Lt(d1.max, v.max) THEN [d1 EXCEPT !.max = v.max] ELSE d1

\* a bug: one array is grown to the length of the other
mergeBucketsCrossed(d, v, alias) ==
    [d EXCEPT !.neg = AddBuckets(grow(d.neg, Len(v.pos) - 1), v.neg, alias),
              !.pos = AddBuckets(grow(d.pos, Len(v.neg) - 1), v.pos, alias)]

\* both arrays are grown to the length of v's and v's counters added
mergeBuckets(d, v, alias) ==
    [d EXCEPT !.neg = AddBuckets(grow(d.neg, Len(v.neg) - 1), v.neg, alias),
              !.pos = AddBuckets(grow(d.pos, Len(v.pos) - 1), v.pos, alias)]

\* a bug: numPos is left out
mergeCountsNegOnly(d, v) == [d EXCEPT !.numNeg = @ + v.numNeg]

\* d.numNeg += v.numNeg; d.numPos += v.numPos
mergeCounts(d, v) == [d EXCEPT !.numNeg = @ + v.numNeg, !.numPos = @ + v.numPos]

\* a bug: a digest merged into itself is left as it is
mergeApplySkipSelf(d, v, alias) ==
    IF alias THEN d
    ELSE mergeCounts(mergeBuckets(addKahan(mergeMinMax(d, v), v.sum), v, FALSE), v)

\* what Merge does once the relative errors are found equal.  alias says
\* that v is d itself, so every read of v sees what was already written to d.
mergeApply(d, v, alias) ==
    LET d1 == mergeMinMax(d, v)
        d2 == addKahan(d1, IF alias THEN d1.sum ELSE v.sum)
        d3 == mergeBuckets(d2, IF alias THEN d2 ELSE v, alias)
    IN mergeCounts(d3, IF alias THEN d3 ELSE v)

\* a bug: the relative errors are not compared
MergeUnchecked(d, v, alias) == [ret |-> "nil", d |-> mergeApply(d, v, alias)]

\* d.Merge(v): the receiver afterwards and how the call ended
Merge(d, v, alias) ==
    IF v.alpha # d.alpha
    THEN [ret |-> "error", d |-> d]
    ELSE [ret |-> "nil", d |-> mergeApply(d, v, alias)]

\* d.Quantile(q)
Quantile(d, q) ==
    IF IsNaN(q) \/ Lt(q, FromInt(0)) \/ Lt(FromInt(1), q)
    THEN [ret |-> "panic", val |-> NaN]
    ELSE IF Count(d) = 0 THEN [ret |-> "ok", val |-> NaN]
    ELSE IF q = FromInt(0) THEN [ret |-> "ok", val |-> d.min]
    ELSE IF q = FromInt(1) THEN [ret |-> "ok", val |-> d.max]
    ELSE LET rank == ToUint(FAdd(FromInt(1), FMul(q, FromInt(Count(d) - 1))))
         IN IF rank <= d.numNeg
            THEN [ret |-> "ok", val |-> quantile(d, -rankIndexRev(rank, d.neg))]
            ELSE [ret |-> "ok",
                  val |-> quantile(d, rankIndex(rank - d.numNeg, d.pos) + 1)]

(***************************************************************************)
(* The binary form.  A buffer is a sequence of 4-byte cells, so its length *)
(* in bytes is 4 * Len(data), and the byte offset i is cell i \div 4 + 1.  *)
(* The 8 bytes of a float64 <<n, d>> are the cells n, d; the 8 bytes of a  *)
(* uint64 are its low and its high half, the high half being zero for      *)
(* every counter of the model; a uint32 is one cell.                       *)
(***************************************************************************)
headerSize == 1 * 8 + 4 * 8 + 2 * 8 + 2 * 4

PutFloat64(x) == <<x[1], x[2]>>

PutUint64(v) == <<v, 0>>

PutUint32(v) == <<v>>

RECURSIVE PutUint64s(_)
PutUint64s(buckets) ==
    IF buckets = <<>> THEN <<>>
    ELSE PutUint64(Head(buckets)) \o PutUint64s(Tail(buckets))

ByteLen(data) == 4 * Len(data)

Float64At(data, i) == <<data[i \div 4 + 1], data[i \div 4 + 2]>>

Uint64At(data, i) == data[i \div 4 + 1]

Uint32At(data, i) == data[i \div 4 + 1]

\* a bug: max is written where min belongs, and min where max does
MarshalBinarySwapped(d) ==
    PutFloat64(d.alpha) \o PutFloat64(d.max) \o PutFloat64(d.min)
        \o PutFloat64(d.sum) \o PutFloat64(d.c)
        \o PutUint64(d.numNeg) \o PutUint64(d.numPos)
        \o PutUint32(Len(d.neg)) \o PutUint32(Len(d.pos))
        \o PutUint64s(d.neg) \o PutUint64s(d.pos)

MarshalBinary(d) ==
    PutFloat64(d.alpha) \o PutFloat64(d.min) \o PutFloat64(d.max)
        \o PutFloat64(d.sum) \o PutFloat64(d.c)
        \o PutUint64(d.numNeg) \o PutUint64(d.numPos)
        \o PutUint32(Len(d.neg)) \o PutUint32(Len(d.pos))
        \o PutUint64s(d.neg) \o PutUint64s(d.pos)

\* 2^29: (lenNeg+lenPos)*8 is computed in uint32, that is modulo 2^32
TwoTo29 == 536870912

\* (lenNeg+lenPos)*8 in uint32, counted in 4-byte cells
HistCells(lenNeg, lenPos) == 2 * ((lenNeg + lenPos) % TwoTo29)

\* the n counters read from byte offset i; reading past the end of data
\* is an index out of range
ReadUint64s(data, i, n) ==
    IF 2 * n > Len(data) - i \div 4 THEN [ret |-> "panic", v |-> <<>>]
    ELSE [ret |-> "ok", v |-> [j \in 1 .. n |-> Uint64At(data, i + 8 * (j - 1))]]

\* d.UnmarshalBinary(data): the receiver afterwards and how the call ended
UnmarshalBinary(d, data) ==
    IF ByteLen(data) < headerSize THEN [ret |-> "error", d |-> d]
    ELSE LET alpha == Float64At(data, 0)
             min == Float64At(data, 8)
             max == Float64At(data, 16)
             sum == Float64At(data, 24)
             c == Float64At(data, 32)
             numNeg == Uint64At(data, 40)
             numPos == Uint64At(data, 48)
             lenNeg == Uint32At(data, 56)
             lenPos == Uint32At(data, 60)
             i == 64
             neg == ReadUint64s(data, i, lenNeg)
             pos == ReadUint64s(data, i + 8 * lenNeg, lenPos)
         IN IF IsNaN(alpha) \/ Le(alpha, FromInt(0)) \/ Le(FromInt(1), alpha)
            THEN [ret |-> "error", d |-> d]
            ELSE IF Len(data) - i \div 4 < HistCells(lenNeg, lenPos)
            THEN [ret |-> "error", d |-> d]
            ELSE IF neg.ret = "panic" \/ pos.ret = "panic"
            THEN [ret |-> "panic", d |-> d]
            ELSE [ret |-> "nil",
                  d |-> [alpha |-> alpha, gamma |-> Gamma(alpha),
                         min |-> min, max |-> max, sum |-> sum, c |-> c,
                         neg |-> neg.v, pos |-> pos.v,
                         numNeg |-> numNeg, numPos |-> numPos]]

(***************************************************************************)
(* Inputs.                                                                 *)
(***************************************************************************)
\* relative errors: gamma is 2 for 1/3 and 3 for 1/2
Alphas == {<<1, 3>>, <<1, 2>>}

\* values Add accepts: 1/32, 1/4 and 1 fall in neg buckets, 3 and 12 in pos
\* buckets; the bucket of 12 ends next to MaxFloat64, and with gamma = 2 the
\* bucket of 1/32 lies beyond MaxLen
ValidValues == {<<1, 32>>, <<1, 4>>, <<1, 1>>, <<3, 1>>, <<12, 1>>}

\* values Add rejects
InvalidValues == {NaN, <<0, 1>>, <<-1, 1>>, MaxFloat64, PosInf}

\* the values added in the runs of Add and Merge alone
Values == (ValidValues \ {<<1, 32>>}) \cup InvalidValues

\* the values added in the runs with the codec
CodecValues == {<<1, 32>>, <<1, 4>>, <<3, 1>>, NaN, MaxFloat64}

\* quantiles asked for
Quantiles == {<<0, 1>>, <<1, 4>>, <<1, 2>>, <<3, 4>>, <<1, 1>>}

DigestIds == {"a", "b", "c"}

\* the digests the codec runs work on
CodecIds == {"a", "b"}

\* what is done to a marshalled buffer before it is unmarshalled
Kinds ==
    {"intact", "shortHeader", "alphaNaN", "alphaZero", "alphaOne",
     "cut8", "trail4", "trail8", "lenWrap", "countOff"}

\* buffers shorter than the header, with a relative error that is NaN or
\* outside (0, 1), or whose bytes after the header are not (lenNeg+lenPos)*8
Malformed ==
    {"shortHeader", "alphaNaN", "alphaZero", "alphaOne",
     "cut8", "trail4", "trail8", "lenWrap"}

SetCells(data, i, cells) ==
    [j \in 1 .. Len(data) |->
        IF j > i \div 4 /\ j <= i \div 4 + Len(cells) THEN cells[j - i \div 4] ELSE data[j]]

Damage(data, kind) ==
    CASE kind = "intact" -> data
      [] kind = "shortHeader" -> SubSeq(data, 1, headerSize \div 4 - 1)
      [] kind = "alphaNaN" -> SetCells(data, 0, PutFloat64(NaN))
      [] kind = "alphaZero" -> SetCells(data, 0, PutFloat64(FromInt(0)))
      [] kind = "alphaOne" -> SetCells(data, 0, PutFloat64(FromInt(1)))
      [] kind = "cut8" -> SubSeq(data, 1, Len(data) - 2)
      [] kind = "trail4" -> data \o <<0>>
      [] kind = "trail8" -> data \o <<0, 0>>
      [] kind = "lenWrap" -> SetCells(data, 56, PutUint32(Uint32At(data, 56) + TwoTo29))
      [] kind = "countOff" -> SetCells(data, 40, PutUint64(Uint64At(data, 40) + 1))

(***************************************************************************)
(* The values a digest was given, kept sorted, as the reference digest of  *)
(* the tests keeps them.                                                   *)
(***************************************************************************)
RECURSIVE Insert(_, _)
Insert(s, v) ==
    IF s = <<>> THEN <<v>>
    ELSE IF Le(v, Head(s)) THEN <<v>> \o s
    ELSE <<Head(s)>> \o Insert(Tail(s), v)

RECURSIVE MergeSorted(_, _)
MergeSorted(s, t) == IF t = <<>> THEN s ELSE MergeSorted(Insert(s, Head(t)), Tail(t))

(***************************************************************************)
(* The version of the digest that has Reset (unnamed/part_000).  Its       *)
(* struct holds alpha, gamma, gammaLn, neg, pos, numNeg and numPos only;   *)
(* its Add, Merge and grow treat the bucket arrays with the statements of  *)
(* digest.go, without min, max and sum; its Quantile finds every q by rank.*)
(* In a digest of this version the fields min, max, sum and c of the       *)
(* record stay as NewDigest leaves them.                                   *)
(***************************************************************************)
Reset(d) == [d EXCEPT !.neg = <<>>, !.pos = <<>>, !.numNeg = 0, !.numPos = 0]

AddPlain(d, v) ==
    IF IsNaN(v) \/ Le(v, FromInt(0)) \/ Le(MaxFloat64, v)
    THEN [ret |-> "panic", d |-> d]
    ELSE LET k == bucketKey(d, v)
         IN IF addBucketPanics(d, k)
            THEN [ret |-> "panic", d |-> d]
            ELSE [ret |-> "ok", d |-> addBucket(d, k)]

QuantilePlain(d, q) ==
    IF IsNaN(q) \/ Lt(q, FromInt(0)) \/ Lt(FromInt(1), q)
    THEN [ret |-> "panic", val |-> NaN]
    ELSE IF Count(d) = 0 THEN [ret |-> "ok", val |-> NaN]
    ELSE LET rank == ToUint(FAdd(FromInt(1), FMul(q, FromInt(Count(d) - 1))))
         IN IF rank <= d.numNeg
            THEN [ret |-> "ok", val |-> quantile(d, -rankIndexRev(rank, d.neg))]
            ELSE [ret |-> "ok",
                  val |-> quantile(d, rankIndex(rank - d.numNeg, d.pos) + 1)]

(***************************************************************************)
(* The bucket arrays in memory.  A slice is a pointer to a backing array   *)
(* and a length; the capacity is the length of the backing array; the nil  *)
(* slice has pointer 0.  heap.mem holds the backing arrays by pointer, the *)
(* empty sequence where none is allocated; heap.sl holds the slices neg    *)
(* and pos of every digest.  What a digest sees of an array is View.       *)
(***************************************************************************)
Sides == {"neg", "pos"}

\* pointers: one backing array per slice at most
Arrays == 1 .. (Cardinality(DigestIds) * Cardinality(Sides))

NilSlice == [ptr |-> 0, len |-> 0]

InitHeap ==
    [mem |-> [p \in Arrays |-> <<>>],
     sl |-> [i \in DigestIds |-> [neg |-> NilSlice, pos |-> NilSlice]]]

Cap(h, s) == IF s.ptr = 0 THEN 0 ELSE Len(h.mem[s.ptr])

View(h, i, side) ==
    LET s == h.sl[i][side]
    IN IF s.len = 0 THEN <<>> ELSE [c \in 1 .. s.len |-> h.mem[s.ptr][c]]

\* a slice other than that of digest i and side points to array p
HeldByOther(h, i, side, p) ==
    \E j \in DigestIds, t \in Sides :
        <<j, t>> # <<i, side>> /\ h.sl[j][t].ptr = p

\* the pointer the slice of i and side is given first
Home(i, side) ==
    2 * (CASE i = "a" -> 0 [] i = "b" -> 1 [] i = "c" -> 2)
        + (IF side = "neg" THEN 1 ELSE 2)

\* where the runtime puts a new backing array for the slice of i and side:
\* any place no other slice holds will do; it is Home where that is free,
\* and else the first free one
NewPtr(h, i, side) ==
    IF ~HeldByOther(h, i, side, Home(i, side)) THEN Home(i, side)
    ELSE CHOOSE p \in Arrays :
             /\ ~HeldByOther(h, i, side, p)
             /\ \A q \in Arrays : q < p => HeldByOther(h, i, side, q)

\* the capacity append gives a slice that outgrows its capacity: twice the
\* old one or what is needed (the rounding to allocation sizes is left out)
NewCap(cap, need) == IF need > 2 * cap THEN need ELSE 2 * cap

\* a bug: within the capacity the slice is extended without clearing it
growAtReslice(h, i, side, ix) ==
    LET s == h.sl[i][side]
        need == ix + 1
    IN IF need <= s.len THEN h
       ELSE IF need <= Cap(h, s) THEN [h EXCEPT !.sl[i][side].len = need]
       ELSE LET p == NewPtr(h, i, side)
                arr == [c \in 1 .. NewCap(Cap(h, s), need) |->
                           IF c <= s.len THEN h.mem[s.ptr][c] ELSE 0]
            IN [mem |-> [q \in Arrays |->
                            IF q = p THEN arr
                            ELSE IF q = s.ptr /\ ~HeldByOther(h, i, side, q) THEN <<>>
                            ELSE h.mem[q]],
                sl |-> [h.sl EXCEPT ![i][side] = [ptr |-> p, len |-> need]]]

\* d.side = grow(d.side, ix): append(buckets, make([]uint64, n)...) writes n
\* zeros behind the slice, into its backing array where the capacity
\* suffices and into a new one, with the old counters copied, where not
growAt(h, i, side, ix) ==
    LET s == h.sl[i][side]
        n == ix + 1 - s.len
        need == s.len + n
    IN IF n <= 0 THEN h
       ELSE IF need <= Cap(h, s)
       THEN [mem |-> [h.mem EXCEPT ![s.ptr] =
                         [c \in 1 .. Cap(h, s) |->
                             IF c > s.len /\ c <= need THEN 0 ELSE h.mem[s.ptr][c]]],
             sl |-> [h.sl EXCEPT ![i][side].len = need]]
       ELSE LET p == NewPtr(h, i, side)
                arr == [c \in 1 .. NewCap(Cap(h, s), need) |->
                           IF c <= s.len THEN h.mem[s.ptr][c] ELSE 0]
            IN [mem |-> [q \in Arrays |->
                            IF q = p THEN arr
                            ELSE IF q = s.ptr /\ ~HeldByOther(h, i, side, q) THEN <<>>
                            ELSE h.mem[q]],
                sl |-> [h.sl EXCEPT ![i][side] = [ptr |-> p, len |-> need]]]

\* d.side[ix]++
incAt(h, i, side, ix) == [h EXCEPT !.mem[h.sl[i][side].ptr][ix + 1] = @ + 1]

\* the bucket statements of Add for key k
addBucketAt(h, i, k) ==
    IF k < 1 THEN incAt(growAt(h, i, "neg", -k), i, "neg", -k)
    ELSE incAt(growAt(h, i, "pos", k - 1), i, "pos", k - 1)

RECURSIVE mergeLoop(_, _, _, _, _)
\* for ix, n := range v.side { d.side[ix] += n }, from index ix on: n is
\* read from memory when its turn comes
mergeLoop(h, dptr, vptr, ix, len) ==
    IF ix >= len THEN h
    ELSE LET n == h.mem[vptr][ix + 1]
         IN mergeLoop([h EXCEPT !.mem[dptr][ix + 1] = @ + n], dptr, vptr, ix + 1, len)

\* a bug: an empty slice of d takes over the slice of v instead of a copy
mergeSideAdopt(h, i, j, side) ==
    IF h.sl[i][side].len = 0 /\ Cap(h, h.sl[i][side]) = 0
    THEN [h EXCEPT !.sl[i][side] = h.sl[j][side]]
    ELSE LET h1 == growAt(h, i, side, h.sl[j][side].len - 1)
         IN mergeLoop(h1, h1.sl[i][side].ptr, h1.sl[j][side].ptr, 0, h1.sl[j][side].len)

\* d.side = grow(d.side, len(v.side)-1), then the loop over v.side
mergeSide(h, i, j, side) ==
    LET h1 == growAt(h, i, side, h.sl[j][side].len - 1)
    IN mergeLoop(h1, h1.sl[i][side].ptr, h1.sl[j][side].ptr, 0, h1.sl[j][side].len)

\* d.neg = d.neg[:0]; d.pos = d.pos[:0]: the backing arrays are kept
resetAt(h, i) == [h EXCEPT !.sl[i].neg.len = 0, !.sl[i].pos.len = 0]

\* the digests ds with the bucket arrays they see in h
Viewed(h, ds) ==
    [j \in DigestIds |->
        [ds[j] EXCEPT !.neg = View(h, j, "neg"), !.pos = View(h, j, "pos")]]

(***************************************************************************)
(* State.                                                                  *)
(*   digests  the digests, by name                                         *)
(*   ref      per digest: vals, the sorted values added to it directly or  *)
(*            through a merged digest; n, the successful Add calls plus    *)
(*            the Count() of every digest merged in; pure, whether it was  *)
(*            built by successful Add and Merge calls on a NewDigest (and  *)
(*            by decoding such a digest) alone; vals and n are kept for    *)
(*            pure digests only                                            *)
(*   last     the last call: op, how it ended (ret), and its input: for    *)
(*            UnmarshalBinary whether the buffer was malformed, for Merge  *)
(*            whether the digest was merged into itself, for the calls on  *)
(*            digests laid out in memory the name of the receiver          *)
(*   heap     the bucket arrays in memory, for the runs that lay the       *)
(*            digests out in memory; the other runs take a bucket array as *)
(*            the value a digest sees and leave heap alone                 *)
(***************************************************************************)
VARIABLES digests, ref, last, heap

vars == <<digests, ref, last, heap>>

Init ==
    /\ digests \in [DigestIds -> {NewDigest(a).d : a \in Alphas}]
    /\ ref = [i \in DigestIds |-> [vals |-> <<>>, n |-> 0, pure |-> TRUE]]
    /\ last = [op |-> "NewDigest", ret |-> "ok", input |-> "none"]
    /\ heap = InitHeap

\* the reference of a digest that UnmarshalBinary filled with something else
\* than a marshalled digest, or that a call left half written
NoRef == [vals |-> <<>>, n |-> 0, pure |-> FALSE]

RECURSIVE SumOver(_, _)
SumOver(f, S) ==
    IF S = {} THEN 0
    ELSE LET x == CHOOSE y \in S : TRUE IN f[x] + SumOver(f, S \ {x})

\* the values held by all digests together
Total == SumOver([i \in DigestIds |-> Count(digests[i])], DigestIds)

\* a digest is left half written by Add at most once
AddStep(i, v) ==
    LET r == Add(digests[i], v)
    IN /\ Total < MaxTotal
       /\ (r.ret # "ok" /\ r.d # digests[i]) => ref[i].pure
       /\ digests' = [digests EXCEPT ![i] = r.d]
       /\ ref' = IF r.ret = "ok" /\ ref[i].pure
                 THEN [ref EXCEPT ![i].vals = Insert(@, v), ![i].n = @ + 1]
                 ELSE IF r.d # digests[i] THEN [ref EXCEPT ![i] = NoRef]
                 ELSE ref
       /\ last' = [op |-> "Add", ret |-> r.ret, input |-> "none"]
       /\ UNCHANGED heap

\* a half-written digest that counts no value is not merged from, which
\* keeps the sums bounded; a digest merged into itself may take the total
\* one above MaxTotal, so that a digest of two values can be
MergeStep(i, j) ==
    LET r == Merge(digests[i], digests[j], i = j)
    IN /\ Total + Count(digests[j]) <= MaxTotal + (IF i = j THEN 1 ELSE 0)
       /\ Count(digests[j]) = 0 => ref[j].pure
       /\ digests' = [digests EXCEPT ![i] = r.d]
       /\ ref' = IF r.ret = "nil" /\ ref[i].pure /\ ref[j].pure
                 THEN [ref EXCEPT ![i].vals = MergeSorted(@, ref[j].vals),
                                  ![i].n = @ + Count(digests[j])]
                 ELSE IF r.ret = "nil" THEN [ref EXCEPT ![i] = NoRef]
                 ELSE ref
       /\ last' = [op |-> "Merge", ret |-> r.ret,
                   input |-> IF i = j THEN "self" ELSE "none"]
       /\ UNCHANGED heap

\* digests[i] is marshalled, the buffer is damaged as kind says, and
\* digests[j] unmarshals it
UnmarshalStep(i, j, kind) ==
    LET data == Damage(MarshalBinary(digests[i]), kind)
        r == UnmarshalBinary(digests[j], data)
    IN /\ Total - Count(digests[j]) + Count(digests[i]) <= MaxTotal + 1
       /\ digests' = [digests EXCEPT ![j] = r.d]
       /\ ref' = IF r.ret = "nil"
                 THEN [ref EXCEPT ![j] = IF r.d = digests[i] THEN ref[i] ELSE NoRef]
                 ELSE ref
       /\ last' = [op |-> "UnmarshalBinary", ret |-> r.ret,
                   input |-> IF kind \in Malformed THEN "malformed" ELSE "wellFormed"]
       /\ UNCHANGED heap

AddAny == \E i \in DigestIds, v \in Values : AddStep(i, v)

MergeAny == \E i, j \in DigestIds : MergeStep(i, j)

Next == AddAny \/ MergeAny

Spec == Init /\ [][Next]_vars

AddCodec == \E i \in CodecIds, v \in CodecValues : AddStep(i, v)

MergeCodec == \E i, j \in CodecIds : MergeStep(i, j)

UnmarshalCodec == \E i, j \in CodecIds, kind \in Kinds : UnmarshalStep(i, j, kind)

NextCodec == AddCodec \/ MergeCodec \/ UnmarshalCodec

\* the digest outside CodecIds stays as constructed
InitCodec == Init /\ \A i \in DigestIds \ CodecIds : digests[i].alpha = <<1, 3>>

SpecCodec == InitCodec /\ [][NextCodec]_vars

(***************************************************************************)
(* The runs on digests laid out in memory: Add, Merge and Reset of the     *)
(* version that has Reset.  digests holds what every digest sees of the    *)
(* memory after the call; ref[i].vals are the values digest i was given    *)
(* since its last Reset.                                                   *)
(***************************************************************************)
\* the values added in the runs in memory: with gamma = 3 they fall at the
\* indices 1 and 0 of neg and 0 of pos
StoreValues == {<<1, 4>>, <<1, 1>>, <<3, 1>>, NaN}

\* the digests the runs in memory work on
StoreIds == {"a", "b"}

AddStore(i, v) ==
    LET r == AddPlain(digests[i], v)
        h == IF r.ret = "ok" THEN addBucketAt(heap, i, bucketKey(digests[i], v)) ELSE heap
    IN /\ Total < MaxStored
       /\ heap' = h
       /\ digests' = Viewed(h, [digests EXCEPT ![i].numNeg = r.d.numNeg,
                                                ![i].numPos = r.d.numPos])
       /\ ref' = IF r.ret = "ok"
                 THEN [ref EXCEPT ![i].vals = Insert(@, v), ![i].n = @ + 1]
                 ELSE ref
       /\ last' = [op |-> "Add", ret |-> r.ret, input |-> i]

MergeStore(i, j) ==
    LET ok == digests[j].alpha = digests[i].alpha
        h == IF ok THEN mergeSide(mergeSide(heap, i, j, "neg"), i, j, "pos") ELSE heap
        d == IF ok THEN mergeCounts(digests[i], digests[j]) ELSE digests[i]
    IN /\ Total + Count(digests[j]) <= MaxStored
       /\ heap' = h
       /\ digests' = Viewed(h, [digests EXCEPT ![i] = d])
       /\ ref' = IF ok
                 THEN [ref EXCEPT ![i].vals = MergeSorted(@, ref[j].vals),
                                  ![i].n = @ + Count(digests[j])]
                 ELSE ref
       /\ last' = [op |-> "Merge", ret |-> IF ok THEN "nil" ELSE "error", input |-> i]

ResetStore(i) ==
    LET h == resetAt(heap, i)
    IN /\ heap' = h
       /\ digests' = Viewed(h, [digests EXCEPT ![i].numNeg = 0, ![i].numPos = 0])
       /\ ref' = [ref EXCEPT ![i].vals = <<>>, ![i].n = 0]
       /\ last' = [op |-> "Reset", ret |-> "ok", input |-> i]

AddInStore == \E i \in StoreIds, v \in StoreValues : AddStore(i, v)

MergeInStore == \E i \in StoreIds, j \in DigestIds : MergeStore(i, j)

ResetInStore == \E i \in StoreIds : ResetStore(i)

NextStore == AddInStore \/ MergeInStore \/ ResetInStore

\* the digests in use have gamma = 3; the third one, of another relative
\* error, stays as constructed
InitStore ==
    /\ Init
    /\ \A i \in StoreIds : digests[i].alpha = <<1, 2>>
    /\ \A i \in DigestIds \ StoreIds : digests[i].alpha = <<1, 3>>

SpecStore == InitStore /\ [][NextStore]_vars

(***************************************************************************)
(* Properties.                                                             *)
(***************************************************************************)
Pure(i) == ref[i].pure

PureIds == {i \in DigestIds : Pure(i)}

\* the quantiles strictly between 0 and 1
Interior == {q \in Quantiles : Lt(FromInt(0), q) /\ Lt(q, FromInt(1))}

FAbs(x) == <<Abs(x[1]), x[2]>>

\* the value at 1-indexed rank floor(1 + q*(count-1)) of the sorted values
TrueQuantile(vals, q) ==
    vals[ToUint(FAdd(FromInt(1), FMul(q, FromInt(Len(vals) - 1))))]

\* |rep - x| / x <= alpha
WithinError(rep, x, alpha) == Le(FDiv(FAbs(FSub(rep, x)), x), alpha)

\* the counter of the bucket of key k, zero where the arrays do not reach
BucketAt(d, k) ==
    IF k < 1 THEN (IF -k + 1 <= Len(d.neg) THEN d.neg[-k + 1] ELSE 0)
    ELSE (IF k <= Len(d.pos) THEN d.pos[k] ELSE 0)

\* Quantile(q) for every q asked for
QuantilesOf(d) == [q \in Quantiles |-> Quantile(d, q)]

RECURSIVE AddAll(_, _)
\* the digest after the values of vals are Added to d one by one
AddAll(d, vals) == IF vals = <<>> THEN d ELSE AddAll(Add(d, Head(vals)).d, Tail(vals))

\* C1: for a non-empty digest built by Add and Merge and any q strictly
\* between 0 and 1, Quantile(q) is within relative error alpha of the true
\* quantile, the value at rank floor(1 + q*(count-1)) of the sorted values.
C1_ErrorBound ==
    \A i \in PureIds :
        Count(digests[i]) > 0 =>
            \A q \in Interior :
                WithinError(Quantile(digests[i], q).val,
                            TrueQuantile(ref[i].vals, q), digests[i].alpha)

\* C2: for a non-empty digest built by Add and Merge, Quantile(0) is exactly
\* the smallest and Quantile(1) exactly the largest value ever added to it,
\* directly or through a merged digest.
C2_ExactExtremes ==
    \A i \in PureIds :
        Count(digests[i]) > 0 =>
            /\ Quantile(digests[i], FromInt(0)).val = Head(ref[i].vals)
            /\ Quantile(digests[i], FromInt(1)).val = ref[i].vals[Len(ref[i].vals)]

\* a Merge has just joined two digests with different extremes
C2_Witness ==
    /\ last.op = "Merge" /\ last.ret = "nil"
    /\ \E i \in PureIds :
           /\ Len(ref[i].vals) >= 2
           /\ Head(ref[i].vals) # ref[i].vals[Len(ref[i].vals)]
           /\ \E j \in PureIds \ {i} :
                  /\ Count(digests[j]) > 0
                  /\ digests[j].min = digests[i].min
                  /\ digests[j].max # digests[i].max

\* C3: Count() is the number of successful Add calls plus the Count(), at
\* merge time, of every digest merged in; a panicking Add and a rejected
\* Merge leave it as it was.
C3_CountConservation ==
    \A i \in PureIds : Count(digests[i]) = ref[i].n

\* a Merge has just brought values into a digest, in neg and in pos buckets
C3_Witness ==
    /\ last.op = "Merge" /\ last.ret = "nil"
    /\ \E i \in PureIds :
           digests[i].numNeg > 0 /\ digests[i].numPos > 0 /\ ref[i].n >= 2

\* the observable result of a digest: every bucket counter, Count(), the
\* tracked min and max and every quantile
Counters(d) == [k \in -MaxKey .. MaxKey |-> BucketAt(d, k)]

Observed(d) == <<Counters(d), Count(d), d.min, d.max, QuantilesOf(d)>>

\* C4: after a.Merge(b) of two digests with the same relative error, every
\* bucket counter, Count(), min, max and every Quantile(q) of a are those of
\* one digest into which the values of a and then those of b were Added.
C4_MergeIsAddAll ==
    /\ \A i \in PureIds : \A j \in PureIds \ {i} :
           digests[i].alpha = digests[j].alpha =>
               Observed(Merge(digests[i], digests[j], FALSE).d)
                   = Observed(AddAll(NewDigest(digests[i].alpha).d,
                                     ref[i].vals \o ref[j].vals))
    /\ \A i \in PureIds :
           Observed(digests[i])
               = Observed(AddAll(NewDigest(digests[i].alpha).d, ref[i].vals))

\* a Merge has just made a digest of two values whose buckets differ
C4_Witness ==
    /\ last.op = "Merge" /\ last.ret = "nil"
    /\ \E i \in PureIds : \E j \in PureIds \ {i} :
           /\ Count(digests[i]) >= 2
           /\ Count(digests[j]) > 0
           /\ Size(digests[i]) > Size(digests[j])
           /\ digests[i].numNeg > 0
           /\ digests[i].numPos > 0

\* what C5 compares: Count(), Size(), the bucket counters, min, max and
\* every quantile
Compared(d) == <<Count(d), Size(d), d.neg, d.pos, d.min, d.max, QuantilesOf(d)>>

MergeOf(d, v) == Merge(d, v, FALSE).d

\* C5: merging digests a, b, c of one relative error in any order and
\* grouping gives the same Count(), Size(), bucket counters, min, max and
\* quantiles.
C5_MergeOrder ==
    \A i \in PureIds : \A j \in PureIds \ {i} :
        digests[i].alpha = digests[j].alpha =>
            /\ Compared(MergeOf(digests[i], digests[j]))
                   = Compared(MergeOf(digests[j], digests[i]))
            /\ \A k \in PureIds \ {i, j} :
                   digests[k].alpha = digests[i].alpha =>
                       Compared(MergeOf(MergeOf(digests[i], digests[j]), digests[k]))
                           = Compared(MergeOf(digests[i],
                                              MergeOf(digests[j], digests[k])))

\* three non-empty digests of one relative error, with neg arrays and pos
\* arrays of different lengths among them, after a Merge
C5_Witness ==
    /\ last.op = "Merge" /\ last.ret = "nil"
    /\ \A i \in DigestIds : Count(digests[i]) > 0 /\ Pure(i)
    /\ \A i, j \in DigestIds : digests[i].alpha = digests[j].alpha
    /\ \E i, j \in DigestIds : Len(digests[i].neg) # Len(digests[j].neg)
    /\ \E i, j \in DigestIds : Len(digests[i].pos) # Len(digests[j].pos)

\* C6: d.Merge(v) returns an error exactly when the relative errors
\* differ, and then no field of d or of v changes; when they are equal it
\* returns nil.
C6_MergeRejects ==
    /\ [](\A i, j \in DigestIds :
             LET r == Merge(digests[i], digests[j], i = j)
             IN /\ r.ret = "error" <=> digests[i].alpha # digests[j].alpha
                /\ r.ret = "nil" <=> digests[i].alpha = digests[j].alpha
                /\ r.ret = "error" => r.d = digests[i])
    /\ [][(last'.op = "Merge" /\ last'.ret = "error") => digests' = digests]_vars

\* a Merge of a non-empty digest into one of another relative error was
\* rejected
C6_Witness ==
    /\ last.op = "Merge" /\ last.ret = "error"
    /\ \E i, j \in DigestIds :
           /\ digests[i].alpha # digests[j].alpha
           /\ Count(digests[i]) > 0
           /\ Count(digests[j]) > 0

\* the zero value of the Digest struct
ZeroDigest ==
    [alpha |-> FromInt(0), gamma |-> FromInt(0),
     min |-> FromInt(0), max |-> FromInt(0), sum |-> FromInt(0), c |-> FromInt(0),
     neg |-> <<>>, pos |-> <<>>, numNeg |-> 0, numPos |-> 0]

\* C7: for every digest d, built by NewDigest, Add and Merge or not,
\* UnmarshalBinary(MarshalBinary(d)) succeeds and gives a digest with the
\* fields of d, hence its Count(), Sum(), Size() and quantiles, whether the
\* target was fresh, populated or a zero Digest.
C7_RoundTrip ==
    \A i \in DigestIds :
        \A t \in {digests[j] : j \in DigestIds} \cup {ZeroDigest} :
            LET r == UnmarshalBinary(t, MarshalBinary(digests[i]))
            IN /\ r.ret = "nil"
               /\ r.d = digests[i]
               /\ Count(r.d) = Count(digests[i])
               /\ Sum(r.d) = Sum(digests[i])
               /\ Size(r.d) = Size(digests[i])
               /\ QuantilesOf(r.d) = QuantilesOf(digests[i])

\* UnmarshalBinary has just filled a digest from the buffer of another one
\* that holds values in neg and in pos buckets
C7_Witness ==
    /\ last.op = "UnmarshalBinary" /\ last.ret = "nil"
    /\ \E i \in PureIds : \E j \in PureIds \ {i} :
           /\ digests[i] = digests[j]
           /\ digests[i].numNeg > 0
           /\ digests[i].numPos > 0
           /\ digests[i].min # digests[i].max

\* C8: UnmarshalBinary returns an error, and neither succeeds nor panics,
\* for every buffer shorter than the header, with a relative error that is
\* NaN or outside (0, 1), or whose bytes after the header are not exactly
\* (lenNeg + lenPos) * 8.
C8_RejectsMalformed ==
    (last.op = "UnmarshalBinary" /\ last.input = "malformed") => last.ret = "error"

\* C9: every mutating call is all or nothing: a call that panics or returns
\* an error leaves every field of every digest as it was.
C9_AllOrNothing ==
    [][last'.ret \in {"panic", "error"} => digests' = digests]_vars

\* C10: in every reachable state, also after UnmarshalBinary of any buffer
\* it accepts, numNeg is the sum of neg and numPos the sum of pos.
C10_CountIsBucketSum ==
    \A i \in DigestIds :
        /\ digests[i].numNeg = SumOver(digests[i].neg, DOMAIN digests[i].neg)
        /\ digests[i].numPos = SumOver(digests[i].pos, DOMAIN digests[i].pos)

RECURSIVE SumTo(_, _)
\* the cumulative count of the first n buckets
SumTo(buckets, n) == IF n = 0 THEN 0 ELSE SumTo(buckets, n - 1) + buckets[n]

\* the loop of rankIndexRev or rankIndex ends without n >= rank, so that the
\* return after the loop is taken
FallsThrough(rank, buckets) == SumTo(buckets, Len(buckets)) < rank

\* rank := uint64(1 + q*float64(d.Count()-1))
RankOf(d, q) == ToUint(FAdd(FromInt(1), FMul(q, FromInt(Count(d) - 1))))

\* C11: for a non-empty digest built by Add and Merge and q strictly between
\* 0 and 1, Quantile(q) is quantile(k) for k the bucket key of the value at
\* rank floor(1 + q*(Count()-1)) of the sorted values: ranks up to numNeg are
\* found in neg, at index -k, larger ranks in pos, at index k - 1, and the
\* return after the loop of rankIndexRev and rankIndex is not taken.
C11_RankLookup ==
    \A i \in PureIds :
        Count(digests[i]) > 0 =>
            \A q \in Interior :
                LET d == digests[i]
                    rank == RankOf(d, q)
                    k == bucketKey(d, TrueQuantile(ref[i].vals, q))
                IN /\ Quantile(d, q).val = quantile(d, k)
                   /\ rank <= d.numNeg =>
                          /\ ~FallsThrough(rank, d.neg)
                          /\ k < 1
                          /\ rankIndexRev(rank, d.neg) = -k
                   /\ rank > d.numNeg =>
                          /\ ~FallsThrough(rank - d.numNeg, d.pos)
                          /\ k >= 1
                          /\ rankIndex(rank - d.numNeg, d.pos) = k - 1

\* a digest holds three values in neg and pos buckets, and the quantiles
\* asked for fall in neg, above index 0, and in pos
C11_Witness ==
    \E i \in PureIds :
        /\ Count(digests[i]) = 3
        /\ \E q \in Interior :
               /\ RankOf(digests[i], q) <= digests[i].numNeg
               /\ rankIndexRev(RankOf(digests[i], q), digests[i].neg) > 0
        /\ \E q \in Interior : RankOf(digests[i], q) > digests[i].numNeg

\* d.Merge(d), and d.Merge(v) for v an identical copy of d
SelfMerge(d) == Merge(d, d, TRUE)

CopyMerge(d) == Merge(d, d, FALSE)

RECURSIVE Twice(_)
\* each value of a sorted sequence twice
Twice(vals) ==
    IF vals = <<>> THEN <<>> ELSE <<Head(vals), Head(vals)>> \o Twice(Tail(vals))

\* what C12 holds of d.Merge(d) apart from the interior quantiles: it
\* succeeds as the merge of an identical copy does, every bucket counter,
\* numNeg, numPos and Count() double, Size(), min and max stay
SelfMergeDoubles(d) ==
    LET r == SelfMerge(d)
    IN /\ r.ret = "nil"
       /\ r.d = CopyMerge(d).d
       /\ \A k \in -MaxKey .. MaxKey : BucketAt(r.d, k) = 2 * BucketAt(d, k)
       /\ r.d.numNeg = 2 * d.numNeg
       /\ r.d.numPos = 2 * d.numPos
       /\ Count(r.d) = 2 * Count(d)
       /\ Size(r.d) = Size(d)
       /\ r.d.min = d.min
       /\ r.d.max = d.max

\* C12 as amended: d.Merge(d) succeeds and leaves d as the merge of an
\* identical copy would: the counters double, Size(), min, max, Quantile(0)
\* and Quantile(1) stay, and Quantile(q) for q strictly between 0 and 1 is
\* that of the bucket of the value at rank floor(1 + q*(2*Count()-1)) among
\* the values of d taken twice.
C12_SelfMerge ==
    \A i \in PureIds :
        LET d == digests[i]
            r == SelfMerge(d)
        IN /\ SelfMergeDoubles(d)
           /\ Quantile(r.d, FromInt(0)) = Quantile(d, FromInt(0))
           /\ Quantile(r.d, FromInt(1)) = Quantile(d, FromInt(1))
           /\ Count(d) > 0 =>
                  \A q \in Interior :
                      Quantile(r.d, q).val
                          = quantile(d, bucketKey(d, TrueQuantile(Twice(ref[i].vals), q)))

\* a digest of two values in two buckets has just been merged into itself
C12_Witness ==
    /\ last.op = "Merge" /\ last.ret = "nil" /\ last.input = "self"
    /\ \E i \in PureIds :
           /\ Count(digests[i]) = 4
           /\ digests[i].numNeg = 2
           /\ digests[i].numPos = 2
           /\ Len(ref[i].vals) = 4

\* C12 as stated: d.Merge(d) doubles the counters and leaves Size(), min,
\* max and every Quantile(q) as they were.
C12_SelfMergeKeepsQuantiles ==
    \A i \in PureIds :
        /\ SelfMergeDoubles(digests[i])
        /\ QuantilesOf(SelfMerge(digests[i]).d) = QuantilesOf(digests[i])

\* Quantile is non-decreasing over the quantiles of Q
MonotoneOver(d, Q) ==
    \A q1, q2 \in Q :
        Le(q1, q2) => Le(Quantile(d, q1).val, Quantile(d, q2).val)

\* C15 as amended: for a non-empty digest built by Add and Merge, Quantile
\* is non-decreasing over the open interval: for all q1 <= q2 strictly
\* between 0 and 1, Quantile(q1) <= Quantile(q2); and Quantile(0), the
\* tracked min, is at most Quantile(1), the tracked max.
C15_InteriorMonotone ==
    \A i \in PureIds :
        Count(digests[i]) > 0 =>
            /\ MonotoneOver(digests[i], Interior)
            /\ MonotoneOver(digests[i], {FromInt(0), FromInt(1)})

\* a digest of three values whose interior quantiles rise from a neg bucket
\* to a pos bucket
C15_Witness ==
    \E i \in PureIds :
        /\ Count(digests[i]) = 3
        /\ \E q1, q2 \in Interior :
               /\ Lt(q1, q2)
               /\ RankOf(digests[i], q1) <= digests[i].numNeg
               /\ RankOf(digests[i], q2) > digests[i].numNeg
               /\ Lt(Quantile(digests[i], q1).val, Quantile(digests[i], q2).val)

\* C15 as stated: for a non-empty digest built by Add and Merge, Quantile is
\* non-decreasing over the closed interval [0, 1], the endpoints included.
C15_Monotone ==
    \A i \in PureIds :
        Count(digests[i]) > 0 => MonotoneOver(digests[i], Quantiles)

\* no backing array is held by two slices
NoSharedStorage ==
    \A i, j \in DigestIds : \A s, t \in Sides :
        (<<i, s>> # <<j, t>> /\ heap.sl[i][s].ptr # 0)
            => heap.sl[i][s].ptr # heap.sl[j][t].ptr

\* a call on the digest last'.input leaves every other digest with the
\* fields, the slices and the bucket counters it had
OthersUntouched ==
    \A j \in DigestIds :
        j # last'.input => digests'[j] = digests[j] /\ heap'.sl[j] = heap.sl[j]

\* C13: for distinct digests d and v, d.Merge(v) changes no field and no
\* bucket counter of v, and no two digests ever share a backing array: any
\* Add, Merge or Reset on one digest leaves the Count(), Size(), bucket
\* counters and quantiles of every other digest as they were.
C13_NoSharedStorage ==
    /\ []NoSharedStorage
    /\ [][OthersUntouched]_vars

\* d, whose neg array was made by merging v into it, has been Reset and
\* keeps its backing array, while v holds its values in its own
C13_Witness ==
    /\ last.op = "Reset"
    /\ \E j \in StoreIds \ {last.input} :
           /\ Count(digests[j]) > 0
           /\ Len(digests[j].neg) > 1
           /\ Cap(heap, heap.sl[last.input].neg) = Len(digests[j].neg)
           /\ heap.mem[heap.sl[last.input].neg.ptr] = digests[j].neg

RECURSIVE AddAllPlain(_, _)
\* the digest after the values of vals are Added to d one by one
AddAllPlain(d, vals) ==
    IF vals = <<>> THEN d ELSE AddAllPlain(AddPlain(d, Head(vals)).d, Tail(vals))

\* C14: right after Reset, Count() and Size() are 0 and Quantile(q) is NaN
\* for every q; and whatever Add and Merge calls follow, the bucket
\* counters, Count(), Size() and quantiles of the digest are those of a
\* fresh NewDigest of the same relative error given the same values: no
\* counter left in the capacity kept by Reset is seen again.
C14_ResetIsFresh ==
    /\ \A i \in StoreIds :
           LET d == digests[i]
               fresh == AddAllPlain(NewDigest(d.alpha).d, ref[i].vals)
           IN /\ d.neg = fresh.neg
              /\ d.pos = fresh.pos
              /\ Count(d) = Count(fresh)
              /\ Size(d) = Size(fresh)
              /\ \A q \in Quantiles : QuantilePlain(d, q) = QuantilePlain(fresh, q)
    /\ last.op = "Reset" =>
           /\ Count(digests[last.input]) = 0
           /\ Size(digests[last.input]) = 0
           /\ \A q \in Quantiles : QuantilePlain(digests[last.input], q).val = NaN

\* after a Reset, Add has grown neg again within the capacity it kept, and
\* a counter from before the Reset lies behind the slice
C14_Witness ==
    /\ last.op = "Add" /\ last.ret = "ok"
    /\ LET s == heap.sl[last.input].neg
       IN /\ s.len > 0
          /\ s.len < Cap(heap, s)
          /\ heap.mem[s.ptr][s.len + 1] > 0
====
